---- MODULE Spec2Model ----
(***************************************************************************)
(* Model of the smart-card protocol layer of acr122u-settings:             *)
(*   - DrivingLicenseReader.read_file, the select-then-chunk-read session  *)
(*     (src/driving_license.py), with send_apdu and the transport;         *)
(*   - DrivingLicenseReader.decode_status and its status table.            *)
(***************************************************************************)
EXTENDS Integers, Sequences, FiniteSets, TLC

VARIABLES
    connection,   \* self.connection is not None
    file_id,      \* argument of read_file
    max_length,   \* argument of read_file
    pc,           \* position in read_file: "idle", "selecting", "reading", "returned"
    offset,       \* local offset of read_file
    all_data,     \* local all_data of read_file
    read_length,  \* local read_length of the pending READ BINARY
    sent,         \* history: the APDUs handed to connection.transmit, in order
    replies,      \* history: what transmit did with each of them
    exit,         \* history: the statement read_file left by
    ret,          \* what read_file returned
    prev,         \* read_common_dl_files: outcome of the previous read_file
    sw1, sw2,     \* arguments of decode_status
    status_msg,   \* what decode_status returned
    tlv_data,     \* data, the argument of parse_tlv_data
    tlv_segs,     \* history: the padding bytes and TLV items data was built from
    tlv_tail,     \* history: the bytes that follow them in data
    tlv_mode,     \* history: "built" from tlv_segs and tlv_tail, or "raw" bytes
    tlv_out,      \* what parse_tlv_data did
    atr,          \* argument of decodeATR: the ATR bytes
    atrlist,      \* argument of decodeATR: the catalog, <<key, description>> in insertion order
    atr_out,      \* what decodeATR did
    cat_lines,        \* the lines of atr.txt
    cat_pos,          \* load_atrlist: number of lines the for loop has taken
    cat_atr,          \* load_atrlist: atr
    cat_description,  \* load_atrlist: description
    cat_atrlist,      \* load_atrlist: atrlist, <<key, description>> in insertion order
    cat_pc,           \* load_atrlist: "idle", "loop" or "returned"
    app_pc,        \* select_application: "idle", "selecting", "getting" or "returned"
    selected_app,  \* self.selected_app
    app_old,       \* history: selected_app when select_application was called
    app_name,      \* select_application: name
    app_aid,       \* select_application: aid
    app_sent,      \* APDUs select_application handed to transmit
    app_replies,   \* what transmit did with them
    app_ret,       \* what select_application returned
    tool_fn,            \* the function of the settings tool that is called
    tool_pc,            \* "idle", "connecting", "atr", "transmitting" or "done"
    tool_connected,     \* connection.connect() returned
    tool_disconnected,  \* connection.disconnect() was called
    tool_atr,           \* what connection.getATR() returned
    tool_cmd,           \* the command handed to connection.transmit
    tool_replies,       \* what connection.transmit did with it
    tool_exit,          \* "none", "returned" or "raised"
    tool_ret            \* what the function returned

readVars == <<connection, file_id, max_length, pc, offset, all_data, read_length,
              sent, replies, exit, ret, prev>>
statusVars == <<sw1, sw2, status_msg>>
tlvVars == <<tlv_data, tlv_segs, tlv_tail, tlv_mode, tlv_out>>
atrVars == <<atr, atrlist, atr_out>>
catVars == <<cat_lines, cat_pos, cat_atr, cat_description, cat_atrlist, cat_pc>>
appVars == <<app_pc, selected_app, app_old, app_name, app_aid, app_sent, app_replies, app_ret>>
toolVars == <<tool_fn, tool_pc, tool_connected, tool_disconnected, tool_atr, tool_cmd,
              tool_replies, tool_exit, tool_ret>>
restVars == <<tlvVars, atrVars, catVars, appVars, toolVars>>
vars == <<readVars, statusVars, restVars>>

(***************************************************************************)
(* Bounds of the model and the inputs drawn in it.                         *)
(***************************************************************************)
\* The card may answer a READ BINARY with up to MaxExtra bytes more than asked.
MaxExtra == 1

\* The scan is followed over the first ScanFiles entries of common_files.
ScanFiles == 3

\* The largest chunk read_file asks for.
ChunkSize == 256

Byte == 0..255

Min(a, b) == IF a < b THEN a ELSE b

\* File ids read_file is called with (a few of common_files).
FileIds == {1, \H2F00, \HEF02}

\* Caps read_file is called with: 256 and 512 are the repository's own calls.
MaxLengths == {0, 1, 256, 300, 512, 600}

\* Status words the card answers with.
CardStatus == {<<\H90, 0>>, <<\H61, \H10>>, <<\H6A, \H82>>, <<\H62, \H82>>}

\* First byte values of the data the card answers with.
Seeds == {0, 128}

\* n bytes of card data: consecutive values, so that order is observable.
Ramp(seed, n) == [i \in 1..n |-> (seed + i) % 256]

(***************************************************************************)
(* The transport: connection.transmit either raises or returns             *)
(* (response, sw1, sw2).                                                   *)
(***************************************************************************)
Raise == [raised |-> TRUE, response |-> <<>>, sw1 |-> 0, sw2 |-> 0]

Answer(response, sw) ==
    [raised |-> FALSE, response |-> response, sw1 |-> sw[1], sw2 |-> sw[2]]

\* What transmit may do with a SELECT FILE.
SelectOutcomes ==
    {Raise} \cup {Answer(r, sw) : r \in {<<>>, <<\H6F, 0>>}, sw \in CardStatus}

\* The lengths a card may answer a READ BINARY of rl bytes with.
ReadLens(rl) == {n \in {0, 100, rl - 1, rl} \cup (rl + 1 .. rl + MaxExtra) : n >= 0}

\* What transmit may do with a READ BINARY of rl bytes.
ReadOutcomes(rl) ==
    {Raise}
    \cup {Answer(Ramp(s, n), <<\H90, 0>>) : s \in Seeds, n \in ReadLens(rl)}
    \cup {Answer(Ramp(0, n), sw) : n \in {0, 2}, sw \in CardStatus \ {<<\H90, 0>>}}

(***************************************************************************)
(* send_apdu: None status is the empty tuple, which is falsy as in Python. *)
(***************************************************************************)
NoStatus == <<>>

\* Mutant of send_apdu: the exception of transmit is not caught.
send_apdu_uncaught(outcome) ==
    IF outcome.raised
    THEN [response |-> <<>>, status |-> NoStatus, exc |-> TRUE]
    ELSE [response |-> outcome.response,
          status |-> <<outcome.sw1, outcome.sw2>>, exc |-> FALSE]

\* send_apdu's result for one outcome of transmit; exc: an exception left send_apdu.
send_apdu(outcome) ==
    IF outcome.raised
    THEN [response |-> <<>>, status |-> NoStatus, exc |-> FALSE]
    ELSE [response |-> outcome.response,
          status |-> <<outcome.sw1, outcome.sw2>>, exc |-> FALSE]

Truthy(status) == status # NoStatus

\* Mutants of SelectOk: every answered SELECT FILE goes on; only 0x90 goes on.
SelectOk_any(status) == Truthy(status)

SelectOk_only90(status) == Truthy(status) /\ status[1] = \H90

\* The condition under which read_file goes on after SELECT FILE.
SelectOk(status) == Truthy(status) /\ (status[1] = \H90 \/ status[1] = \H61)

\* Mutant of ReadOk: the bytes of every answered READ BINARY are kept.
ReadOk_any(status) == Truthy(status)

\* The condition under which read_file keeps the bytes of a READ BINARY.
ReadOk(status) == Truthy(status) /\ status[1] = \H90

select_file(fid) == <<0, \HA4, 2, 12, 2, (fid \div 256) % 256, fid % 256>>

read_cmd(off, len) == <<0, \HB0, (off \div 256) % 256, off % 256, len>>

\* Mutant of ReadLength: the bytes already read are not subtracted.
ReadLength_noOffset(off, cap) == Min(ChunkSize, cap)

ReadLength(off, cap) == Min(ChunkSize, cap - off)

\* Mutant of LoopCond: one more round at offset = max_length.
LoopCond_inclusive(off, cap) == off <= cap

\* The while condition of read_file.
LoopCond(off, cap) == off < cap

\* Mutant of ShortRead: a short answer does not end the read.
ShortRead_never(response, len) == FALSE

\* The end-of-file test of read_file.
ShortRead(response, len) == Len(response) < len

\* Mutant of NextOffset: the offset goes on by a whole chunk.
NextOffset_chunk(off, response) == off + ChunkSize

\* offset += len(response)
NextOffset(off, response) == off + Len(response)

NoReturn == [kind |-> "pending", data |-> <<>>]
NoPrev == [ret |-> NoReturn, exit |-> "none"]
ReturnNone == [kind |-> "None", data |-> <<>>]
ReturnList(data) == [kind |-> "list", data |-> data]

(***************************************************************************)
(* read_file                                                               *)
(***************************************************************************)
\* The head of the while loop with the given offset and buffer.
LoopHead(off, data, reason) ==
    IF LoopCond(off, max_length)
    THEN /\ read_length' = ReadLength(off, max_length)
         /\ sent' = Append(sent, read_cmd(off, ReadLength(off, max_length)))
         /\ pc' = "reading"
         /\ UNCHANGED <<ret, exit>>
    ELSE /\ pc' = "returned"
         /\ ret' = ReturnList(data)
         /\ exit' = reason
         /\ UNCHANGED <<read_length, sent>>

\* read_file is called: SELECT FILE goes to the transport, if there is one.
ReadFileCall ==
    /\ pc = "idle"
    /\ IF connection
       THEN /\ sent' = Append(sent, select_file(file_id))
            /\ pc' = "selecting"
            /\ UNCHANGED <<ret, exit>>
       ELSE /\ pc' = "returned"
            /\ ret' = ReturnNone
            /\ exit' = "select_failed"
            /\ UNCHANGED sent
    /\ UNCHANGED <<connection, file_id, max_length, offset, all_data, read_length,
                   replies, prev, statusVars, restVars>>

\* The transport ends the SELECT FILE; read_file runs up to its next transmit.
SelectReply(outcome) ==
    /\ pc = "selecting"
    /\ replies' = Append(replies, outcome)
    /\ LET r == send_apdu(outcome) IN
       IF r.exc
       THEN /\ pc' = "returned" /\ ret' = ReturnNone /\ exit' = "exception"
            /\ UNCHANGED <<offset, all_data, read_length, sent>>
       ELSE IF ~SelectOk(r.status)
       THEN /\ pc' = "returned" /\ ret' = ReturnNone /\ exit' = "select_failed"
            /\ UNCHANGED <<offset, all_data, read_length, sent>>
       ELSE /\ offset' = 0
            /\ all_data' = <<>>
            /\ LoopHead(0, <<>>, "cap_reached")
    /\ UNCHANGED <<connection, file_id, max_length, prev, statusVars, restVars>>

\* The transport ends a READ BINARY; read_file runs up to its next transmit.
ReadReply(outcome) ==
    /\ pc = "reading"
    /\ replies' = Append(replies, outcome)
    /\ LET r == send_apdu(outcome) IN
       IF r.exc
       THEN /\ pc' = "returned" /\ ret' = ReturnNone /\ exit' = "exception"
            /\ UNCHANGED <<offset, all_data, read_length, sent>>
       ELSE IF ReadOk(r.status)
       THEN /\ all_data' = all_data \o r.response
            /\ IF ShortRead(r.response, read_length)
               THEN /\ pc' = "returned"
                    /\ ret' = ReturnList(all_data \o r.response)
                    /\ exit' = "short_read"
                    /\ UNCHANGED <<offset, read_length, sent>>
               ELSE /\ offset' = NextOffset(offset, r.response)
                    /\ LoopHead(NextOffset(offset, r.response),
                                all_data \o r.response, "cap_reached")
       ELSE /\ pc' = "returned"
            /\ ret' = ReturnList(all_data)
            /\ exit' = "read_failed"
            /\ UNCHANGED <<offset, all_data, read_length, sent>>
    /\ UNCHANGED <<connection, file_id, max_length, prev, statusVars, restVars>>

InitRead ==
    /\ connection \in BOOLEAN
    /\ file_id \in FileIds
    /\ max_length \in MaxLengths
    /\ pc = "idle"
    /\ offset = 0
    /\ all_data = <<>>
    /\ read_length = 0
    /\ sent = <<>>
    /\ replies = <<>>
    /\ exit = "none"
    /\ ret = NoReturn
    /\ prev = NoPrev

InitStatus == sw1 = 0 /\ sw2 = 0 /\ status_msg = ""

\* parse_tlv_data is not called.
TlvNotCalled == [done |-> FALSE, error |-> FALSE, parsed |-> <<>>]

InitTlvIdle ==
    /\ tlv_data = <<>>
    /\ tlv_segs = <<>>
    /\ tlv_tail = <<>>
    /\ tlv_mode = "raw"
    /\ tlv_out = TlvNotCalled

\* decodeATR is not called.
AtrNotCalled ==
    [done |-> FALSE, error |-> FALSE, match |-> 0, too_short |-> FALSE,
     tag_lookup |-> FALSE, tag_type |-> "", ta1_decoded |-> FALSE,
     calc |-> "none", frequency |-> <<>>, baud_rate |-> <<>>]

InitAtrIdle ==
    /\ atr = <<>>
    /\ atrlist = <<>>
    /\ atr_out = AtrNotCalled

\* load_atrlist is not called.
InitCatIdle ==
    /\ cat_lines = <<>>
    /\ cat_pos = 0
    /\ cat_atr = <<>>
    /\ cat_description = <<>>
    /\ cat_atrlist = <<>>
    /\ cat_pc = "idle"

\* self.selected_app = None
NoApp == "None"

\* select_application has not returned.
AppNoReturn == [ok |-> FALSE, response |-> NoReturn]

\* select_application is not called.
InitAppIdle ==
    /\ app_pc = "idle"
    /\ selected_app = NoApp
    /\ app_old = NoApp
    /\ app_name = ""
    /\ app_aid = <<>>
    /\ app_sent = <<>>
    /\ app_replies = <<>>
    /\ app_ret = AppNoReturn

\* No function of the settings tool is called.
InitToolIdle ==
    /\ tool_fn = "testReader"
    /\ tool_pc = "idle"
    /\ tool_connected = FALSE
    /\ tool_disconnected = FALSE
    /\ tool_atr = NoReturn
    /\ tool_cmd = <<>>
    /\ tool_replies = <<>>
    /\ tool_exit = "none"
    /\ tool_ret = NoReturn

\* The functions outside the read session are not called.
InitRest == InitTlvIdle /\ InitAtrIdle /\ InitCatIdle /\ InitAppIdle /\ InitToolIdle

\* read_file is not called.
InitReadIdle ==
    /\ connection = FALSE
    /\ file_id = 1
    /\ max_length = ChunkSize
    /\ pc = "idle"
    /\ offset = 0
    /\ all_data = <<>>
    /\ read_length = 0
    /\ sent = <<>>
    /\ replies = <<>>
    /\ exit = "none"
    /\ ret = NoReturn
    /\ prev = NoPrev

Init == InitRead /\ InitStatus /\ InitRest

Next ==
    \/ ReadFileCall
    \/ \E o \in SelectOutcomes : SelectReply(o)
    \/ \E o \in ReadOutcomes(read_length) : ReadReply(o)

Spec == Init /\ [][Next]_vars

(***************************************************************************)
(* read_common_dl_files: read_file on each of common_files in turn, with   *)
(* max_length 512; prev keeps what the previous read_file gave its caller. *)
(***************************************************************************)
common_files == <<1, 2, 3, 4, 5, 16, 17, 18, 19, \H2F00, \H2F01, \H5001, \H5002,
                  \H5003, \HEF01, \HEF02>>

ScanLength == 512

IndexOf(fid) == CHOOSE i \in 1..Len(common_files) : common_files[i] = fid

\* The loop of read_common_dl_files goes on to its next file.
NextFile ==
    /\ pc = "returned"
    /\ IndexOf(file_id) < Min(ScanFiles, Len(common_files))
    /\ prev' = [ret |-> ret, exit |-> exit]
    /\ file_id' = common_files[IndexOf(file_id) + 1]
    /\ pc' = "idle"
    /\ offset' = 0
    /\ all_data' = <<>>
    /\ read_length' = 0
    /\ sent' = <<>>
    /\ replies' = <<>>
    /\ exit' = "none"
    /\ ret' = NoReturn
    /\ UNCHANGED <<connection, max_length, statusVars, restVars>>

InitScan ==
    /\ connection = TRUE
    /\ file_id = common_files[1]
    /\ max_length = ScanLength
    /\ pc = "idle"
    /\ offset = 0
    /\ all_data = <<>>
    /\ read_length = 0
    /\ sent = <<>>
    /\ replies = <<>>
    /\ exit = "none"
    /\ ret = NoReturn
    /\ prev = NoPrev
    /\ InitStatus
    /\ InitRest

NextScan ==
    \/ ReadFileCall
    \/ \E o \in SelectOutcomes : SelectReply(o)
    \/ \E o \in ReadOutcomes(read_length) : ReadReply(o)
    \/ NextFile

SpecScan == InitScan /\ [][NextScan]_vars

(***************************************************************************)
(* decode_status and the status table of _init_status_codes                *)
(***************************************************************************)
\* The entries of the dictionary literal, in the order of the source.
status_code_entries == <<
    <<\H9000, "Success - Normal processing">>,
    <<\H9001, "Success - Normal processing with extra information">>,
    <<\H6100, "Warning - More data available (use GET RESPONSE)">>,
    <<\H6110, "Warning - More data available">>,
    <<\H6181, "Warning - Part of returned data may be corrupted">>,
    <<\H6182, "Warning - End of file reached before reading expected number of bytes">>,
    <<\H6183, "Warning - Selected file invalidated">>,
    <<\H6184, "Warning - File control information not formatted">>,
    <<\H6185, "Warning - Selected file in termination state">>,
    <<\H6186, "Warning - No input data available from sensor">>,
    <<\H6187, "Warning - At least one try left">>,
    <<\H6188, "Warning - Last try left">>,
    <<\H6200, "Warning - Information added by the card (card gives information)">>,
    <<\H6281, "Warning - Part of returned data may be corrupted">>,
    <<\H6282, "Warning - End of file reached before reading Le bytes">>,
    <<\H6283, "Warning - Selected file invalidated">>,
    <<\H6284, "Warning - File control information not formatted according to 5.3.3">>,
    <<\H6285, "Warning - Selected file in termination state">>,
    <<\H6286, "Warning - No input data available from a sensor on the card">>,
    <<\H6300, "Warning - Authentication failed">>,
    <<\H6381, "Warning - File filled up by the last write">>,
    <<\H6382, "Warning - Card key not supported">>,
    <<\H6383, "Warning - Reader key not supported">>,
    <<\H6384, "Warning - Plaintext transmission not supported">>,
    <<\H6385, "Warning - Secured transmission not supported">>,
    <<\H6386, "Warning - Volatile memory is not available">>,
    <<\H6387, "Warning - Non-volatile memory is not available">>,
    <<\H6388, "Warning - Key number not valid">>,
    <<\H6389, "Warning - Key length is not correct">>,
    <<\H6400, "Error - Execution error">>,
    <<\H6401, "Error - Immediate response required by the card">>,
    <<\H6481, "Error - Memory failure">>,
    <<\H6500, "Error - No information given">>,
    <<\H6501, "Error - Write problem / Memory failure / Unknown mode">>,
    <<\H6581, "Error - Memory failure">>,
    <<\H6C00, "Error - Wrong length Le">>,
    <<\H6800, "Error - Functions in CLA not supported">>,
    <<\H6881, "Error - Logical channel not supported">>,
    <<\H6882, "Error - Secure messaging not supported">>,
    <<\H6883, "Error - Last command of the chain expected">>,
    <<\H6884, "Error - Command chaining not supported">>,
    <<\H6900, "Error - Command not allowed">>,
    <<\H6981, "Error - Command incompatible with file structure">>,
    <<\H6982, "Error - Security condition not satisfied">>,
    <<\H6983, "Error - Authentication method blocked">>,
    <<\H6984, "Error - Referenced data reversibly blocked (invalidated)">>,
    <<\H6985, "Error - Conditions of use not satisfied">>,
    <<\H6986, "Error - Command not allowed (no current EF)">>,
    <<\H6987, "Error - Expected secure messaging data objects missing">>,
    <<\H6988, "Error - Incorrect secure messaging data objects">>,
    <<\H6A00, "Error - Wrong parameter(s) P1-P2">>,
    <<\H6A80, "Error - Incorrect parameters in the data field">>,
    <<\H6A81, "Error - Function not supported">>,
    <<\H6A82, "Error - File or application not found">>,
    <<\H6A83, "Error - Record not found">>,
    <<\H6A84, "Error - Not enough memory space in the file">>,
    <<\H6A85, "Error - Nc inconsistent with TLV structure">>,
    <<\H6A86, "Error - Incorrect parameters P1-P2">>,
    <<\H6A87, "Error - Nc inconsistent with parameters P1-P2">>,
    <<\H6A88, "Error - Referenced data not found">>,
    <<\H6A89, "Error - File already exists">>,
    <<\H6A8A, "Error - DF name already exists">>,
    <<\H6B00, "Error - Wrong parameter(s) P1-P2">>,
    <<\H6D00, "Error - Instruction code not supported or invalid">>,
    <<\H6E00, "Error - Class not supported">>,
    <<\H6F00, "Error - No precise diagnosis">>,
    <<\H6FFF, "Error - Card dead (no answer to reset)">>,
    <<\H9240, "MIFARE - Authentication error">>,
    <<\H9302, "MIFARE - Permission denied">>,
    <<\H9303, "MIFARE - Application not found">>,
    <<\H9310, "MIFARE - Application already exists">>,
    <<\H9320, "MIFARE - File not found">>,
    <<\H9321, "MIFARE - File already exists">>,
    <<\H9322, "MIFARE - File is read only">>,
    <<\H9381, "MIFARE - Current authentication status does not allow the requested command">>,
    <<\H9400, "MIFARE - Length error">>,
    <<\H9401, "MIFARE - Invalid key number specified">>,
    <<\H9402, "MIFARE - Application keys are locked">>,
    <<\H6999, "Java Card - Applet selection failed">>,
    <<\H6A81, "Java Card - Card locked or function not supported">>,
    <<\H9484, "Java Card - Algorithm not supported">>,
    <<\H9485, "Java Card - Invalid key for use in the specified context">>
>>

StatusKeys == {status_code_entries[i][1] : i \in 1..Len(status_code_entries)}

\* The dictionary the literal builds: of two entries with one key the later stays.
status_codes ==
    [c \in StatusKeys |->
        LET last == CHOOSE i \in 1..Len(status_code_entries) :
                        /\ status_code_entries[i][1] = c
                        /\ \A j \in (i + 1)..Len(status_code_entries) :
                              status_code_entries[j][1] # c
        IN  status_code_entries[last][2]]

HexDigits == <<"0", "1", "2", "3", "4", "5", "6", "7", "8", "9",
               "A", "B", "C", "D", "E", "F">>

\* format(b, "02X")
Hex2(b) == HexDigits[(b \div 16) + 1] \o HexDigits[(b % 16) + 1]

\* format(n, "d")
Dec(n) == ToString(n)

\* Mutant of pattern_match: SW1 = 0x61 reports SW2 in hex, 0x94 has no family.
pattern_match_slip(s1, s2) ==
    IF s1 = \H61 THEN "Success - " \o Hex2(s2) \o " bytes of response data can be requested"
    ELSE IF s1 = \H6C
        THEN "Wrong length - Expected Le=" \o Hex2(s2) \o " (" \o Dec(s2) \o ") bytes"
    ELSE IF s1 \in \H62..\H6F THEN "Error (SW2=" \o Hex2(s2) \o ")"
    ELSE IF s1 \in {\H90, \H92, \H93} THEN "Status (SW2=" \o Hex2(s2) \o ")"
    ELSE "Unknown status code " \o Hex2(s1) \o Hex2(s2)

\* The pattern matches of decode_status, tried when the table has no entry.
pattern_match(s1, s2) ==
    IF s1 = \H61 THEN "Success - " \o Dec(s2) \o " bytes of response data can be requested"
    ELSE IF s1 = \H6C
        THEN "Wrong length - Expected Le=" \o Hex2(s2) \o " (" \o Dec(s2) \o ") bytes"
    ELSE IF s1 = \H62 THEN "Warning - State unchanged (SW2=" \o Hex2(s2) \o ")"
    ELSE IF s1 = \H63 /\ (s2 \div 16) * 16 = \HC0
        THEN "Warning - Verification failed, " \o Dec(s2 % 16) \o " tries left"
    ELSE IF s1 = \H63 THEN "Warning - State changed (SW2=" \o Hex2(s2) \o ")"
    ELSE IF s1 = \H64 THEN "Error - State unchanged (SW2=" \o Hex2(s2) \o ")"
    ELSE IF s1 = \H65 THEN "Error - State changed (SW2=" \o Hex2(s2) \o ")"
    ELSE IF s1 = \H66 THEN "Error - Security related issue (SW2=" \o Hex2(s2) \o ")"
    ELSE IF s1 = \H67 THEN "Error - Wrong length (SW2=" \o Hex2(s2) \o ")"
    ELSE IF s1 = \H68
        THEN "Error - Functions in CLA not supported (SW2=" \o Hex2(s2) \o ")"
    ELSE IF s1 = \H69 THEN "Error - Command not allowed (SW2=" \o Hex2(s2) \o ")"
    ELSE IF s1 = \H6A THEN "Error - Wrong parameters P1-P2 (SW2=" \o Hex2(s2) \o ")"
    ELSE IF s1 = \H6B THEN "Error - Wrong parameters P1-P2 (SW2=" \o Hex2(s2) \o ")"
    ELSE IF s1 = \H6D THEN "Error - Instruction not supported (SW2=" \o Hex2(s2) \o ")"
    ELSE IF s1 = \H6E THEN "Error - Class not supported (SW2=" \o Hex2(s2) \o ")"
    ELSE IF s1 = \H6F THEN "Error - No precise diagnosis (SW2=" \o Hex2(s2) \o ")"
    ELSE IF s1 = \H90 THEN "Success (SW2=" \o Hex2(s2) \o ")"
    ELSE IF s1 = \H92 THEN "MIFARE specific error (SW2=" \o Hex2(s2) \o ")"
    ELSE IF s1 = \H93
        THEN "MIFARE permission/application error (SW2=" \o Hex2(s2) \o ")"
    ELSE IF s1 = \H94 THEN "MIFARE/Java Card algorithm error (SW2=" \o Hex2(s2) \o ")"
    ELSE "Unknown status code " \o Hex2(s1) \o Hex2(s2)

\* (sw1 << 8) | sw2
status_word(s1, s2) == s1 * 256 + s2

\* Mutant of decode_status: the SW1 family is tried before the table.
decode_status_familyFirst(s1, s2) ==
    IF s1 \in (\H61..\H6F) \cup {\H90, \H92, \H93, \H94}
    THEN pattern_match(s1, s2)
    ELSE IF status_word(s1, s2) \in DOMAIN status_codes
    THEN status_codes[status_word(s1, s2)]
    ELSE pattern_match(s1, s2)

decode_status(s1, s2) ==
    IF status_word(s1, s2) \in DOMAIN status_codes
    THEN status_codes[status_word(s1, s2)]
    ELSE pattern_match(s1, s2)

\* decode_status is called with the status of sw1, sw2.
DecodeStatus ==
    /\ status_msg = ""
    /\ status_msg' = decode_status(sw1, sw2)
    /\ UNCHANGED <<readVars, sw1, sw2, restVars>>

\* The status words decode_status is given: every pair of bytes.
InitDecode ==
    /\ sw1 \in Byte
    /\ sw2 \in Byte
    /\ status_msg = ""
    /\ connection = FALSE
    /\ file_id = common_files[1]
    /\ max_length = ChunkSize
    /\ pc = "idle"
    /\ offset = 0
    /\ all_data = <<>>
    /\ read_length = 0
    /\ sent = <<>>
    /\ replies = <<>>
    /\ exit = "none"
    /\ ret = NoReturn
    /\ prev = NoPrev
    /\ InitRest

NextDecode == DecodeStatus

SpecDecode == InitDecode /\ [][NextDecode]_vars

(***************************************************************************)
(* parse_tlv_data (src/driving_license.py). The buffer is a sequence of    *)
(* bytes indexed from 0 as in the source: byte i is d[i + 1]. The result   *)
(* dictionary is the sequence of its <<tag, value>> items in insertion     *)
(* order.                                                                  *)
(***************************************************************************)
\* The buffer is followed over at most MaxSegs padding bytes and items.
MaxSegs == 4

\* Raw buffers are followed up to MaxRaw bytes.
MaxRaw == 4

\* The while condition, and the test before the length byte is read.
InBuffer(d, i) == i < Len(d)

\* Mutant of HasLengthByte: the length byte is read without the test.
HasLengthByte_unchecked(d, i) == TRUE

\* if i >= len(data): break, negated
HasLengthByte(d, i) == ~(i >= Len(d))

\* Mutant of IsPadding: 0xFF is taken for a tag.
IsPadding_zeroOnly(tag) == tag = \H00

\* tag == 0x00 or tag == 0xFF
IsPadding(tag) == tag = \H00 \/ tag = \HFF

\* length & 0x80
IsExtended(length) == (length \div 128) % 2 = 1

\* length & 0x7F
LengthBytes(length) == length % 128

\* for j in range(length_bytes): length = (length << 8) | data[i + j]
RECURSIVE ExtendedLength(_, _, _)
ExtendedLength(d, i, n) ==
    IF n = 0 THEN 0 ELSE ExtendedLength(d, i, n - 1) * 256 + d[i + n]

\* data[i:i + length]
Slice(d, i, length) == SubSeq(d, i + 1, i + length)

\* Mutant of dict_set: a tag that is already a key keeps its value.
dict_set_keepFirst(parsed, tag, value) ==
    IF \E k \in 1..Len(parsed) : parsed[k][1] = tag
    THEN parsed
    ELSE Append(parsed, <<tag, value>>)

\* parsed[tag] = value: a new key goes last, a known key keeps its place.
dict_set(parsed, tag, value) ==
    IF \E k \in 1..Len(parsed) : parsed[k][1] = tag
    THEN [k \in 1..Len(parsed) |->
             IF parsed[k][1] = tag THEN <<tag, value>> ELSE parsed[k]]
    ELSE Append(parsed, <<tag, value>>)

TlvReturn(parsed) == [done |-> TRUE, error |-> FALSE, parsed |-> parsed]

\* data[i] with i outside the buffer raises IndexError, which nothing catches.
TlvIndexError == [done |-> TRUE, error |-> TRUE, parsed |-> <<>>]

\* The while loop of parse_tlv_data from cursor i with the dictionary parsed.
RECURSIVE tlv_loop(_, _, _)
tlv_loop(d, i, parsed) ==
    IF ~InBuffer(d, i) THEN TlvReturn(parsed)
    ELSE
    LET tag == d[i + 1]
        i1 == i + 1
    IN
    IF IsPadding(tag) THEN tlv_loop(d, i1, parsed)
    ELSE IF ~HasLengthByte(d, i1) THEN TlvReturn(parsed)
    ELSE IF i1 >= Len(d) THEN TlvIndexError
    ELSE
    LET length == d[i1 + 1]
        i2 == i1 + 1
        n == LengthBytes(length)
        extOk == n > 0 /\ i2 + n <= Len(d)
        len == IF IsExtended(length) THEN ExtendedLength(d, i2, n) ELSE length
        i3 == IF IsExtended(length) THEN i2 + n ELSE i2
    IN
    IF IsExtended(length) /\ ~extOk THEN TlvReturn(parsed)
    ELSE IF i3 + len <= Len(d)
    THEN tlv_loop(d, i3 + len, dict_set(parsed, tag, Slice(d, i3, len)))
    ELSE TlvReturn(parsed)

parse_tlv_data(d) == tlv_loop(d, 0, <<>>)

\* parse_tlv_data is called on the buffer.
ParseTlv ==
    /\ ~tlv_out.done
    /\ tlv_out' = parse_tlv_data(tlv_data)
    /\ UNCHANGED <<readVars, statusVars, tlv_data, tlv_segs, tlv_tail, tlv_mode, atrVars, catVars, appVars, toolVars>>

\* The buffers parse_tlv_data is given.
PadSeg(b) == [pad |-> TRUE, tag |-> b, n |-> 0, value |-> <<>>]
ItemSeg(tag, n, value) == [pad |-> FALSE, tag |-> tag, n |-> n, value |-> value]

\* Padding bytes, and items in the short form (n = 0) and the extended form
\* with n length bytes.
Segs ==
    { PadSeg(\H00), PadSeg(\HFF),
      ItemSeg(\H4F, 0, <<\HA0, \H01>>),
      ItemSeg(\H4F, 0, <<\H05>>),
      ItemSeg(\H50, 1, <<\H41>>),
      ItemSeg(\H50, 2, <<\H00, \HFF>>),
      ItemSeg(\H5F, 0, <<>>) }

\* len as n bytes, most significant first
RECURSIVE BigEndian(_, _)
BigEndian(len, n) ==
    IF n = 0 THEN <<>> ELSE Append(BigEndian(len \div 256, n - 1), len % 256)

\* The bytes of one padding byte or item.
SegBytes(g) ==
    IF g.pad THEN <<g.tag>>
    ELSE IF g.n = 0 THEN <<g.tag, Len(g.value)>> \o g.value
    ELSE <<g.tag, 128 + g.n>> \o BigEndian(Len(g.value), g.n) \o g.value

RECURSIVE SegsBytes(_)
SegsBytes(gs) ==
    IF gs = <<>> THEN <<>> ELSE SegBytes(Head(gs)) \o SegsBytes(Tail(gs))

\* Items cut short: no length byte; no extension bytes announced, before a
\* complete item; fewer extension bytes than announced; fewer value bytes than
\* the length says, in the short and in the extended form.
Truncated ==
    { <<\H5A>>,
      <<\H5A, \H80>>,
      <<\H5A, \H80, \H50, \H01, \H41>>,
      <<\H5A, \H82, \H00>>,
      <<\H5A, \H03, \HAA, \HBB>>,
      <<\H5A, \H81, \H02, \HAA>> }

RawBytes == {\H00, \H01, \H4F, \H80, \H81, \HFF}

SeqsUpTo(S, n) == UNION {[1..k -> S] : k \in 0..n}

InitTlv ==
    /\ \/ /\ tlv_mode = "built"
          /\ tlv_segs \in SeqsUpTo(Segs, MaxSegs)
          /\ tlv_tail \in {<<>>} \cup Truncated
          /\ tlv_data = SegsBytes(tlv_segs) \o tlv_tail
       \/ /\ tlv_mode = "raw"
          /\ tlv_segs = <<>>
          /\ tlv_tail = <<>>
          /\ tlv_data \in SeqsUpTo(RawBytes, MaxRaw)
    /\ tlv_out = TlvNotCalled
    /\ InitReadIdle
    /\ InitStatus
    /\ InitAtrIdle
    /\ InitCatIdle
    /\ InitAppIdle
    /\ InitToolIdle

NextTlv == ParseTlv

SpecTlv == InitTlv /\ [][NextTlv]_vars

(***************************************************************************)
(* decodeATR (src/acr122u-settings.py). The strings decodeATR compares are *)
(* sequences of characters; byte i of the ATR is atr[i + 1].               *)
(***************************************************************************)
\* ATRs are followed up to MaxAtrLen bytes, catalogs up to MaxCatalog entries.
MaxAtrLen == 15
MaxCatalog == 3

TAG_TYPE_MAP ==
    << <<\H11, "MIFARE Classic 1K">>, <<\H18, "MIFARE Classic 1K (variant)">>,
       <<\H88, "MIFARE Classic 1K (variant)">>, <<\H08, "MIFARE Classic 2K">>,
       <<\H12, "MIFARE Classic 4K">>, <<\H02, "MIFARE Mini">>,
       <<\H09, "MIFARE Mini (variant)">>, <<\H04, "MIFARE Ultralight">>,
       <<\H03, "MIFARE Ultralight C">>, <<\H44, "MIFARE Plus">>,
       <<\H42, "MIFARE Plus 2K">>, <<\H43, "MIFARE Plus 4K">>,
       <<\H28, "MIFARE DESFire">>, <<\H30, "MIFARE DESFire EV1">>,
       <<\H31, "MIFARE DESFire EV2">>, <<\H32, "MIFARE DESFire EV3">>,
       <<\H20, "ISO 14443-4">>, <<\H40, "ISO 14443 Type A">>,
       <<\H41, "ISO 14443 Type B">>, <<\H21, "ISO 15693">>,
       <<\H01, "Topaz/Type 1">>, <<\H10, "FeliCa (Type 3)">> >>

\* None, and a number
None == [none |-> TRUE, n |-> 0]
Num(n) == [none |-> FALSE, n |-> n]

\* ta1_Fi_table[i] is entry i + 1
ta1_Fi_table ==
    << <<Num(372), "Internal clock">>, <<Num(372), "372">>, <<Num(558), "558">>,
       <<Num(744), "744">>, <<Num(1116), "1116">>, <<Num(1488), "1488">>,
       <<Num(1860), "1860">>, <<None, "RFU">>, <<None, "RFU">>,
       <<Num(512), "512">>, <<Num(768), "768">>, <<Num(1024), "1024">>,
       <<Num(1536), "1536">>, <<Num(2048), "2048">>, <<None, "RFU">>,
       <<None, "RFU">> >>

\* ta1_Di_table[i] is entry i + 1
ta1_Di_table ==
    << <<None, "RFU">>, <<Num(1), "1">>, <<Num(2), "2">>, <<Num(4), "4">>,
       <<Num(8), "8">>, <<Num(16), "16">>, <<Num(32), "32">>, <<Num(64), "64">>,
       <<Num(12), "12">>, <<Num(20), "20">>, <<None, "RFU">>, <<None, "RFU">>,
       <<None, "RFU">>, <<None, "RFU">>, <<None, "RFU">>, <<None, "RFU">> >>

\* TAG_TYPE_MAP.get(code, "Unknown")
TagTypeGet(code) ==
    IF \E k \in 1..Len(TAG_TYPE_MAP) : TAG_TYPE_MAP[k][1] = code
    THEN TAG_TYPE_MAP[CHOOSE k \in 1..Len(TAG_TYPE_MAP) : TAG_TYPE_MAP[k][1] = code][2]
    ELSE "Unknown"

\* table.get(index, (None, "Unknown"))
TableGet(table, index) ==
    IF index + 1 \in DOMAIN table THEN table[index + 1] ELSE <<None, "Unknown">>

\* format(b, '#04X')[2:] as characters
HexChars(b) == <<HexDigits[(b \div 16) + 1], HexDigits[(b % 16) + 1]>>

\* " ".join(atr_printable)
RECURSIVE Render(_)
Render(bytes) ==
    IF bytes = <<>> THEN <<>>
    ELSE IF Len(bytes) = 1 THEN HexChars(bytes[1])
    ELSE HexChars(bytes[1]) \o <<" ">> \o Render(Tail(bytes))

\* s.startswith(p)
StartsWith(s, p) == Len(p) <= Len(s) /\ SubSeq(s, 1, Len(p)) = p

\* The test the for loop makes on one key: the number of ATR bytes is compared
\* with the number of characters of the key.
KeyHit(a, atr_string, key) ==
    IF Len(a) >= Len(key)
    THEN StartsWith(atr_string, key)
    ELSE StartsWith(key, atr_string)

\* The for loop over alist_keys: the entry it breaks at, 0 when it runs out.
ReportedMatch(a, catalog) ==
    LET hits == {k \in 1..Len(catalog) : KeyHit(a, Render(a), catalog[k][1])}
    IN IF hits = {} THEN 0 ELSE CHOOSE k \in hits : \A j \in hits : k <= j

\* Mutant of TooShort: an ATR of 13 bytes goes on to the tag type.
TooShort_offByOne(a) == Len(a) < 13

\* len(atr) < 14
TooShort(a) == Len(a) < 14

\* The truth value of a string
StrTruthy(str) == str # ""

\* The labels int() converts
NumericLabels ==
    << <<"372", 372>>, <<"558", 558>>, <<"744", 744>>, <<"1116", 1116>>,
       <<"1488", 1488>>, <<"1860", 1860>>, <<"512", 512>>, <<"768", 768>>,
       <<"1024", 1024>>, <<"1536", 1536>>, <<"2048", 2048>>, <<"1", 1>>,
       <<"2", 2>>, <<"4", 4>>, <<"8", 8>>, <<"16", 16>>, <<"32", 32>>,
       <<"64", 64>>, <<"12", 12>>, <<"20", 20>> >>

IsNumeric(label) == \E k \in 1..Len(NumericLabels) : NumericLabels[k][1] = label

\* int(label), for a label that is numeric
PyInt(label) ==
    NumericLabels[CHOOSE k \in 1..Len(NumericLabels) : NumericLabels[k][1] = label][2]

\* label is not None: the tables and the default give a string for every index.
IsNotNone(label) == TRUE

\* label is not None and not "RFU": the second operand is the truth value of
\* the literal "RFU", not a comparison with the label.
Converts(label) == IsNotNone(label) /\ ~StrTruthy("RFU")

\* int(label) if label is not None and not "RFU" else None
FactorOf(label) == IF Converts(label) THEN Num(PyInt(label)) ELSE None

\* int() of a label that is no number raises ValueError.
FactorRaises(label) == Converts(label) /\ ~IsNumeric(label)

\* The quotient a / b, kept as the pair of its terms.
Quot(a, b) == <<a, b>>

AtrRaised(m) ==
    [done |-> TRUE, error |-> TRUE, match |-> m, too_short |-> FALSE,
     tag_lookup |-> FALSE, tag_type |-> "", ta1_decoded |-> FALSE,
     calc |-> "none", frequency |-> <<>>, baud_rate |-> <<>>]

decodeATR(a, catalog) ==
    LET m == ReportedMatch(a, catalog) IN
    IF TooShort(a)
    THEN [done |-> TRUE, error |-> FALSE, match |-> m, too_short |-> TRUE,
          tag_lookup |-> FALSE, tag_type |-> "", ta1_decoded |-> FALSE,
          calc |-> "none", frequency |-> <<>>, baud_rate |-> <<>>]
    ELSE IF Len(a) < 14 THEN AtrRaised(m)
    ELSE
    LET tag_type_code == a[14]
        ta1_value == a[3]
        ta1_fi == (ta1_value \div 16) % 16
        ta1_di == ta1_value % 16
        fi_label == TableGet(ta1_Fi_table, ta1_fi)[2]
        di_label == TableGet(ta1_Di_table, ta1_di)[2]
        fi_value == FactorOf(fi_label)
        di_value == FactorOf(di_label)
        both == ~fi_value.none /\ ~di_value.none
    IN
    IF FactorRaises(fi_label) \/ FactorRaises(di_label) THEN AtrRaised(m)
    ELSE [done |-> TRUE, error |-> FALSE, match |-> m, too_short |-> FALSE,
          tag_lookup |-> TRUE, tag_type |-> TagTypeGet(tag_type_code),
          ta1_decoded |-> TRUE,
          calc |-> IF both THEN "calculated" ELSE "cannot",
          frequency |-> IF both THEN Quot(5000000, fi_value.n) ELSE <<>>,
          baud_rate |-> IF both THEN Quot(5000000, fi_value.n * di_value.n) ELSE <<>>]

\* decodeATR is called on atr and atrlist.
DecodeATR ==
    /\ ~atr_out.done
    /\ atr_out' = decodeATR(atr, atrlist)
    /\ UNCHANGED <<readVars, statusVars, tlvVars, atr, atrlist, catVars, appVars, toolVars>>

\* The ATR of a MIFARE Classic 1K card on the ACR122U.
AtrTemplate ==
    <<\H3B, \H8F, \H80, \H01, \H80, \H4F, \H0C, \HA0, \H00, \H00,
      \H03, \H06, \H03, \H00, \H01, \H00, \H00, \H00, \H00, \H6A>>

\* The first n bytes of the ATR, with TA1 and the byte at index 13 replaced.
AtrOf(n, ta1, tag) ==
    [i \in 1..n |-> IF i = 3 THEN ta1 ELSE IF i = 14 THEN tag ELSE AtrTemplate[i]]

\* An ATR of n >= 2 bytes with the format byte T0 (index 1) replaced.
AtrWithT0(n, t0, ta1, tag) == [AtrOf(n, ta1, tag) EXCEPT ![2] = t0]

\* Format bytes: the high nibble marks TA1 (bit 0x10) absent or present.
T0Bytes == {\H0F, \H1F, \H8F, \H9F, \HFF}

\* Bytes at index 13: two codes of TAG_TYPE_MAP and two outside it.
TagCodes == {\H44, \H28, \H99, \H00}

\* A catalog entry for the ATR prefix bytes.
Entry(bytes, description) == <<Render(bytes), description>>

CatalogEntries ==
    { Entry(<<\H3B>>, "any direct convention card"),
      Entry(<<\H3B, \H8F>>, "contactless"),
      Entry(<<\H3B, \H8F, \H80, \H01>>, "contactless T=1"),
      Entry(SubSeq(AtrTemplate, 1, 15), "MIFARE Classic 1K"),
      Entry(<<\H3F>>, "inverse convention card"),
      Entry(<<\H3B, \H80>>, "other card"),
      Entry(<<\H3B, \H3B, \H8F>>, "first token twice") }

\* Catalogs: a dictionary has each key once.
Catalogs ==
    {c \in SeqsUpTo(CatalogEntries, MaxCatalog) :
        \A j, k \in 1..Len(c) : j # k => c[j] # c[k]}

InitAtr ==
    /\ \/ /\ atr \in {AtrOf(n, \H80, \H00) : n \in 0..MaxAtrLen}
          /\ atrlist \in Catalogs
       \/ /\ atr \in {AtrOf(n, ta1, tag) : n \in {14, MaxAtrLen}, ta1 \in Byte, tag \in TagCodes}
          /\ atrlist = <<Entry(<<\H3B, \H8F, \H80, \H01>>, "contactless T=1")>>
       \/ /\ atr \in {AtrWithT0(n, t0, ta1, \H44) :
                         n \in {2, 14}, t0 \in T0Bytes, ta1 \in {\H11, \H70, \H80}}
          /\ atrlist = <<>>
    /\ atr_out = AtrNotCalled
    /\ InitReadIdle
    /\ InitStatus
    /\ InitTlvIdle
    /\ InitCatIdle
    /\ InitAppIdle
    /\ InitToolIdle

NextAtr == DecodeATR

SpecAtr == InitAtr /\ [][NextAtr]_vars

(***************************************************************************)
(* load_atrlist (src/acr122u-settings.py). A line of atr.txt, a token, a   *)
(* key and a description are sequences of characters.                      *)
(***************************************************************************)
\* Files are followed up to MaxLines lines.
MaxLines == 4

IsSpace(ch) == ch \in {" ", "\t", "\n"}

\* line.startswith("#")
IsComment(line) == Len(line) >= 1 /\ line[1] = "#"

\* str.strip()
RECURSIVE LStrip(_)
LStrip(str) ==
    IF str # <<>> /\ IsSpace(Head(str)) THEN LStrip(Tail(str)) ELSE str

RECURSIVE RStrip(_)
RStrip(str) ==
    IF str # <<>> /\ IsSpace(str[Len(str)])
    THEN RStrip(SubSeq(str, 1, Len(str) - 1))
    ELSE str

Strip(str) == RStrip(LStrip(str))

\* str.split()
RECURSIVE Split(_)
Split(str) ==
    IF str = <<>> THEN <<>>
    ELSE IF IsSpace(Head(str)) THEN Split(Tail(str))
    ELSE LET n == CHOOSE k \in 1..Len(str) :
                      /\ \A j \in 1..k : ~IsSpace(str[j])
                      /\ k = Len(str) \/ IsSpace(str[k + 1])
         IN <<SubSeq(str, 1, n)>> \o Split(SubSeq(str, n + 1, Len(str)))

\* " ".join(parts)
RECURSIVE Join(_)
Join(parts) ==
    IF parts = <<>> THEN <<>>
    ELSE IF Len(parts) = 1 THEN parts[1]
    ELSE parts[1] \o <<" ">> \o Join(Tail(parts))

HexLetters ==
    {"0", "1", "2", "3", "4", "5", "6", "7", "8", "9",
     "A", "B", "C", "D", "E", "F", "a", "b", "c", "d", "e", "f"}

\* len(parts[i]) == 2 and re.match(r'^[0-9A-Fa-f]{2}$', parts[i])
IsHexToken(tok) == Len(tok) = 2 /\ tok[1] \in HexLetters /\ tok[2] \in HexLetters

\* len(parts) > 0 and (parts[0] == "3B" or parts[0] == "3F")
StartsEntry(parts) ==
    Len(parts) > 0 /\ (parts[1] = <<"3", "B">> \/ parts[1] = <<"3", "F">>)

\* The number of leading tokens the for loop over parts adds to atr.
HexRun(parts) ==
    CHOOSE n \in 0..Len(parts) :
        /\ \A i \in 1..n : IsHexToken(parts[i])
        /\ n = Len(parts) \/ ~IsHexToken(parts[n + 1])

\* atr after the for loop over parts: parts[0] + " ", then every token of the
\* hex run, parts[0] included, each followed by " ".
RECURSIVE Spaced(_)
Spaced(parts) ==
    IF parts = <<>> THEN <<>> ELSE Head(parts) \o <<" ">> \o Spaced(Tail(parts))

EntryAtr(parts) == parts[1] \o <<" ">> \o Spaced(SubSeq(parts, 1, HexRun(parts)))

\* description after the for loop over parts
EntryDescription(parts) ==
    IF HexRun(parts) < Len(parts)
    THEN Join(SubSeq(parts, HexRun(parts) + 1, Len(parts)))
    ELSE <<>>

\* atrlist[atr] = description.strip()
atrlist_store(catalog, key, description) ==
    IF \E k \in 1..Len(catalog) : catalog[k][1] = key
    THEN [k \in 1..Len(catalog) |->
             IF catalog[k][1] = key THEN <<key, description>> ELSE catalog[k]]
    ELSE Append(catalog, <<key, description>>)

\* load_atrlist is called: atr.txt is opened.
LoadCall ==
    /\ cat_pc = "idle"
    /\ cat_pc' = "loop"
    /\ cat_pos' = 0
    /\ cat_atr' = <<>>
    /\ cat_description' = <<>>
    /\ cat_atrlist' = <<>>
    /\ UNCHANGED <<readVars, statusVars, tlvVars, atrVars, appVars, toolVars, cat_lines>>

\* One pass of for line in f.
LoadLine ==
    /\ cat_pc = "loop"
    /\ cat_pos < Len(cat_lines)
    /\ cat_pos' = cat_pos + 1
    /\ LET raw == cat_lines[cat_pos + 1]
           line == Strip(raw)
           parts == Split(line)
       IN IF IsComment(raw) \/ line = <<>>
          THEN UNCHANGED <<cat_atr, cat_description, cat_atrlist>>
          ELSE IF StartsEntry(parts)
          THEN /\ cat_atrlist' =
                     IF Len(cat_atr) > 0
                     THEN atrlist_store(cat_atrlist, Strip(cat_atr), Strip(cat_description))
                     ELSE cat_atrlist
               /\ cat_atr' = EntryAtr(parts)
               /\ cat_description' = EntryDescription(parts)
          ELSE /\ cat_description' = Join(parts)
               /\ UNCHANGED <<cat_atr, cat_atrlist>>
    /\ UNCHANGED <<readVars, statusVars, tlvVars, atrVars, appVars, toolVars, cat_lines, cat_pc>>

\* The file is exhausted: return atrlist.
LoadReturn ==
    /\ cat_pc = "loop"
    /\ cat_pos = Len(cat_lines)
    /\ cat_pc' = "returned"
    /\ UNCHANGED <<readVars, statusVars, tlvVars, atrVars, appVars, toolVars, cat_lines, cat_pos,
                   cat_atr, cat_description, cat_atrlist>>

\* The lines of atr.txt: entries with and without a description on the line,
\* indented description lines, a comment, a blank line.
CatalogLines ==
    { <<"3", "B", " ", "8", "F", " ", "N", "X", "P", "\n">>,
      <<"3", "B", " ", "0", "2", "\n">>,
      <<"3", "F", " ", "6", "5", " ", "o", "l", "d", " ", "c", "a", "r", "d">>,
      <<"\t", "M", "I", "F", "A", "R", "E", " ", "1", "K", "\n">>,
      <<"\t", "r", "e", "a", "d", "e", "r", "\n">>,
      <<"#", " ", "l", "i", "s", "t", "\n">>,
      <<"\n">> }

InitCat ==
    /\ cat_lines \in SeqsUpTo(CatalogLines, MaxLines)
    /\ cat_pos = 0
    /\ cat_atr = <<>>
    /\ cat_description = <<>>
    /\ cat_atrlist = <<>>
    /\ cat_pc = "idle"
    /\ InitReadIdle
    /\ InitStatus
    /\ InitTlvIdle
    /\ InitAtrIdle
    /\ InitAppIdle
    /\ InitToolIdle

NextCat == LoadCall \/ LoadLine \/ LoadReturn

SpecCat == InitCat /\ [][NextCat]_vars

(***************************************************************************)
(* select_application (src/driving_license.py)                             *)
(***************************************************************************)
\* [0x00, 0xA4, 0x04, 0x00, len(aid)] + aid
select_cmd(aid) == <<\H00, \HA4, \H04, \H00, Len(aid)>> \o aid

\* [0x00, 0xC0, 0x00, 0x00, status[1]]
get_response(status) == <<\H00, \HC0, \H00, \H00, status[2]>>

\* Mutant of AppOk: SW1 = 0x61 selects as well.
AppOk_also61(status) == Truthy(status) /\ status[1] \in {\H90, \H61}

\* status and status[0] == 0x90
AppOk(status) == Truthy(status) /\ status[1] = \H90

\* status and status[0] == 0x61
AppMore(status) == Truthy(status) /\ status[1] = \H61

\* The response send_apdu gave: None when it gave no status.
AppResponse(r) == IF Truthy(r.status) THEN ReturnList(r.response) ELSE ReturnNone

\* return True, response
AppTrue(response) == [ok |-> TRUE, response |-> response]

\* return False, response
AppFalse(response) == [ok |-> FALSE, response |-> response]

\* select_application is called: SELECT goes to the transport, if there is one.
SelectAppCall ==
    /\ app_pc = "idle"
    /\ IF connection
       THEN /\ app_sent' = Append(app_sent, select_cmd(app_aid))
            /\ app_pc' = "selecting"
            /\ UNCHANGED app_ret
       ELSE /\ app_pc' = "returned"
            /\ app_ret' = AppFalse(ReturnNone)
            /\ UNCHANGED app_sent
    /\ UNCHANGED <<readVars, statusVars, tlvVars, atrVars, catVars, toolVars,
                   selected_app, app_old, app_name, app_aid, app_replies>>

\* The transport ends the SELECT; select_application runs up to its next
\* transmit or its return.
AppSelectReply(outcome) ==
    /\ app_pc = "selecting"
    /\ app_replies' = Append(app_replies, outcome)
    /\ LET r == send_apdu(outcome) IN
       IF r.exc
       THEN /\ app_pc' = "returned" /\ app_ret' = AppFalse(ReturnNone)
            /\ UNCHANGED <<selected_app, app_sent>>
       ELSE IF AppOk(r.status)
       THEN /\ selected_app' = app_name
            /\ app_pc' = "returned" /\ app_ret' = AppTrue(AppResponse(r))
            /\ UNCHANGED app_sent
       ELSE IF AppMore(r.status)
       THEN /\ app_sent' = Append(app_sent, get_response(r.status))
            /\ app_pc' = "getting"
            /\ UNCHANGED <<selected_app, app_ret>>
       ELSE /\ app_pc' = "returned" /\ app_ret' = AppFalse(AppResponse(r))
            /\ UNCHANGED <<selected_app, app_sent>>
    /\ UNCHANGED <<readVars, statusVars, tlvVars, atrVars, catVars, toolVars,
                   app_old, app_name, app_aid>>

\* The transport ends the GET RESPONSE; select_application returns.
AppGetResponseReply(outcome) ==
    /\ app_pc = "getting"
    /\ app_replies' = Append(app_replies, outcome)
    /\ app_pc' = "returned"
    /\ LET first == send_apdu(app_replies[1])
           r == send_apdu(outcome)
       IN
       IF r.exc
       THEN /\ app_ret' = AppFalse(ReturnNone)
            /\ UNCHANGED selected_app
       ELSE IF AppOk(r.status)
       THEN /\ selected_app' = app_name
            /\ app_ret' = AppTrue(ReturnList(first.response \o r.response))
       ELSE /\ app_ret' = AppFalse(AppResponse(first))
            /\ UNCHANGED selected_app
    /\ UNCHANGED <<readVars, statusVars, tlvVars, atrVars, catVars, toolVars,
                   app_old, app_name, app_aid, app_sent>>

\* Application names and identifiers select_application is called with.
AppNames == {"", "mDL"}
Aids == {<<\HA0, \H00>>, <<\HA0, \H00, \H00, \H02, \H48, \H02, \H00>>}

InitApp ==
    /\ connection \in BOOLEAN
    /\ file_id = 1
    /\ max_length = ChunkSize
    /\ pc = "idle"
    /\ offset = 0
    /\ all_data = <<>>
    /\ read_length = 0
    /\ sent = <<>>
    /\ replies = <<>>
    /\ exit = "none"
    /\ ret = NoReturn
    /\ prev = NoPrev
    /\ InitStatus
    /\ InitTlvIdle
    /\ InitAtrIdle
    /\ InitCatIdle
    /\ InitToolIdle
    /\ app_pc = "idle"
    /\ selected_app \in {NoApp, "eID"}
    /\ app_old = selected_app
    /\ app_name \in AppNames
    /\ app_aid \in Aids
    /\ app_sent = <<>>
    /\ app_replies = <<>>
    /\ app_ret = AppNoReturn

NextApp ==
    \/ SelectAppCall
    \/ \E outcome \in SelectOutcomes : AppSelectReply(outcome)
    \/ \E outcome \in SelectOutcomes : AppGetResponseReply(outcome)

SpecApp == InitApp /\ [][NextApp]_vars

(***************************************************************************)
(* testReader, getPICC, getFirmwareVersion (src/acr122u-settings.py)       *)
(***************************************************************************)
ToolFns == {"testReader", "getPICC", "getFirmwareVersion"}

\* SETTINGS_CMD_GET["Get PICC Operating Parameter"]
GetPiccCmd == <<\HFF, \H00, \H50, \H00, \H00>>

\* CMD of each function
ToolCmd(fn) ==
    IF fn = "testReader" THEN <<\HFF, \H00, \H00, \H00, \H02, \HD4, \H04>>
    ELSE IF fn = "getPICC" THEN GetPiccCmd
    ELSE <<\HFF, \H00, \H48, \H00, \H00>>

\* decodeStatus(data) reads outside data: the header, the three bytes after a
\* valid header, or the five bytes of one of the nbTg targets.
DecodeStatusRaises(d) ==
    \/ Len(d) < 2
    \/ /\ d[1] = \HD5 /\ d[2] = \H05
       /\ \/ Len(d) < 5
          \/ d[5] > 0 /\ Len(d) < 4 + 5 * d[5]

\* The function leaves by return or by an exception.
ToolReturn(value) ==
    /\ tool_pc' = "done"
    /\ tool_exit' = "returned"
    /\ tool_ret' = value

ToolRaise ==
    /\ tool_pc' = "done"
    /\ tool_exit' = "raised"
    /\ UNCHANGED tool_ret

\* The function is called: readers(), r[0], reader.createConnection().
ToolCall(has_reader, connection_ok) ==
    /\ tool_pc = "idle"
    /\ IF ~has_reader THEN ToolRaise
       ELSE IF ~connection_ok THEN ToolReturn(ReturnNone)
       ELSE /\ tool_pc' = "connecting"
            /\ UNCHANGED <<tool_exit, tool_ret>>
    /\ UNCHANGED <<readVars, statusVars, tlvVars, atrVars, catVars, appVars,
                   tool_fn, tool_connected, tool_disconnected, tool_atr, tool_cmd,
                   tool_replies>>

\* connection.connect() returns, raises NoCardException or raises otherwise.
ConnectReply(outcome) ==
    /\ tool_pc = "connecting"
    /\ IF outcome = "connected"
       THEN /\ tool_connected' = TRUE
            /\ tool_pc' = "atr"
            /\ UNCHANGED <<tool_exit, tool_ret>>
       ELSE IF outcome = "NoCardException"
       THEN ToolReturn(ReturnNone) /\ UNCHANGED tool_connected
       ELSE ToolRaise /\ UNCHANGED tool_connected
    /\ UNCHANGED <<readVars, statusVars, tlvVars, atrVars, catVars, appVars,
                   tool_fn, tool_disconnected, tool_atr, tool_cmd, tool_replies>>

\* connection.getATR() returns the ATR or None; the function runs up to its
\* transmit.
GetATRReply(a) ==
    /\ tool_pc = "atr"
    /\ tool_atr' = a
    /\ IF a # ReturnNone
       THEN /\ tool_cmd' = ToolCmd(tool_fn)
            /\ tool_pc' = "transmitting"
            /\ UNCHANGED <<tool_exit, tool_ret>>
       ELSE IF tool_fn = "testReader"
       THEN ToolRaise /\ UNCHANGED tool_cmd
       ELSE ToolReturn(ReturnNone) /\ UNCHANGED tool_cmd
    /\ UNCHANGED <<readVars, statusVars, tlvVars, atrVars, catVars, appVars,
                   tool_fn, tool_connected, tool_disconnected, tool_replies>>

\* connection.transmit(CMD) returns or raises; the function runs to its end.
TransmitReply(outcome) ==
    /\ tool_pc = "transmitting"
    /\ tool_replies' = Append(tool_replies, outcome)
    /\ IF outcome.raised
       THEN ToolRaise /\ UNCHANGED tool_disconnected
       ELSE IF tool_fn = "testReader"
       THEN IF outcome.sw1 # \H90
            THEN ToolReturn(ReturnNone) /\ UNCHANGED tool_disconnected
            ELSE IF DecodeStatusRaises(outcome.response)
            THEN ToolRaise /\ UNCHANGED tool_disconnected
            ELSE ToolReturn(ReturnList(outcome.response)) /\ tool_disconnected' = TRUE
       ELSE ToolReturn(ReturnNone) /\ tool_disconnected' = TRUE
    /\ UNCHANGED <<readVars, statusVars, tlvVars, atrVars, catVars, appVars,
                   tool_fn, tool_connected, tool_atr, tool_cmd>>

\* What getATR returns: None, or the first bytes of the card's ATR.
ToolAtrs ==
    {ReturnNone} \cup {ReturnList(SubSeq(AtrTemplate, 1, n)) : n \in {2, 14, 15, 20}}

ConnectOutcomes == {"connected", "NoCardException", "CardConnectionException"}

\* What the reader answers: a status with no target, with one target, with a
\* target cut short, an answer that is no status, and nothing.
ToolData ==
    { <<\HD5, \H05, \H00, \H01, \H00>>,
      <<\HD5, \H05, \H00, \H01, \H01, \H01, \H00, \H00, \H00>>,
      <<\HD5, \H05, \H00, \H01, \H01, \H01>>,
      <<\H41, \H43, \H52>>,
      <<>> }

ToolOutcomes ==
    {Raise} \cup {Answer(d, sw) : d \in ToolData, sw \in {<<\H90, 0>>, <<\H63, 0>>}}

InitTool ==
    /\ tool_fn \in ToolFns
    /\ tool_pc = "idle"
    /\ tool_connected = FALSE
    /\ tool_disconnected = FALSE
    /\ tool_atr = NoReturn
    /\ tool_cmd = <<>>
    /\ tool_replies = <<>>
    /\ tool_exit = "none"
    /\ tool_ret = NoReturn
    /\ InitReadIdle
    /\ InitStatus
    /\ InitTlvIdle
    /\ InitAtrIdle
    /\ InitCatIdle
    /\ InitAppIdle

NextTool ==
    \/ \E has_reader, connection_ok \in BOOLEAN : ToolCall(has_reader, connection_ok)
    \/ \E outcome \in ConnectOutcomes : ConnectReply(outcome)
    \/ \E a \in ToolAtrs : GetATRReply(a)
    \/ \E outcome \in ToolOutcomes : TransmitReply(outcome)

SpecTool == InitTool /\ [][NextTool]_vars

\* Once the transport has answered, read_file runs on: the session ends.
FairSpec == Spec /\ WF_vars(Next)

(***************************************************************************)
(* What the histories say, for the properties below.                       *)
(***************************************************************************)
IsSelectFile(c) == c[2] = \HA4
IsGetResponse(c) == c[2] = \HC0
IsReadBinary(c) == c[2] = \HB0

Reads == {i \in 1..Len(sent) : IsReadBinary(sent[i])}

\* The bytes of replies j..k, in order.
RECURSIVE Received(_, _)
Received(j, k) == IF k < j THEN <<>> ELSE Received(j, k - 1) \o replies[k].response

\* The bytes of the READ BINARY answers with SW1 = 0x90 among replies 2..k.
RECURSIVE KeptBytes(_)
KeptBytes(k) ==
    IF k < 2 THEN <<>>
    ELSE KeptBytes(k - 1) \o (IF ~replies[k].raised /\ replies[k].sw1 = \H90
                              THEN replies[k].response ELSE <<>>)

\* ceil(n / d) for n >= 0
CeilDiv(n, d) == (n + d - 1) \div d

Answered(i) == i \in 1..Len(replies) /\ ~replies[i].raised

\* C1: when SELECT FILE is answered with SW1 other than 0x90 and 0x61, the
\* read is over: SELECT FILE stays the only APDU sent and None is returned.
C1_SelectFailureAborts ==
    (Answered(1) /\ replies[1].sw1 \notin {\H90, \H61})
        => /\ pc = "returned"
           /\ Len(sent) = 1
           /\ ret = ReturnNone

C1_Witness ==
    /\ Answered(1) /\ replies[1].sw1 = \H6A /\ replies[1].sw2 = \H82
    /\ pc = "returned" /\ ret = ReturnNone

\* C2: every READ BINARY is issued at the offset equal to the bytes received
\* so far (0 for the first) with length min(256, max_length - offset); with
\* max_length = 300 and answers of 256 and 44 bytes, two READ BINARY are
\* issued, (0, 256) and (256, 44), and the 300 bytes are returned in order.
C2_ReadsFollowReceived ==
    /\ \A i \in Reads :
          LET got == Len(Received(2, i - 1)) IN
          /\ i >= 2
          /\ sent[i] = <<0, \HB0, got \div 256, got % 256, Min(256, max_length - got)>>
    /\ (/\ max_length = 300 /\ Len(replies) >= 3
        /\ Answered(2) /\ replies[2].sw1 = \H90 /\ Len(replies[2].response) = 256
        /\ Answered(3) /\ replies[3].sw1 = \H90 /\ Len(replies[3].response) = 44)
        => /\ pc = "returned"
           /\ Len(sent) = 3
           /\ sent[2] = <<0, \HB0, 0, 0, 256>>
           /\ sent[3] = <<0, \HB0, 1, 0, 44>>
           /\ ret = ReturnList(replies[2].response \o replies[3].response)
           /\ Len(ret.data) = 300

C2_Witness ==
    /\ max_length = 300 /\ Len(replies) = 3 /\ pc = "returned"
    /\ Answered(2) /\ replies[2].sw1 = \H90 /\ Len(replies[2].response) = 256
    /\ Answered(3) /\ replies[3].sw1 = \H90 /\ Len(replies[3].response) = 44
    /\ replies[2].response # replies[3].response \o replies[2].response

\* C3: a READ BINARY answered with SW1 = 0x90 and fewer bytes than asked for
\* is the last APDU: its bytes are appended and the read returns.
C3_ShortReadEnds ==
    \A i \in Reads :
        (Answered(i) /\ replies[i].sw1 = \H90 /\ Len(replies[i].response) < sent[i][5])
            => /\ i = Len(sent)
               /\ pc = "returned"
               /\ ret = ReturnList(Received(2, i))

C3_Witness ==
    /\ Len(sent) = 2 /\ sent[2][5] = 256
    /\ Answered(2) /\ replies[2].sw1 = \H90 /\ Len(replies[2].response) = 100
    /\ pc = "returned" /\ Len(ret.data) = 100

\* C4 as claimed: after SELECT FILE is answered (0x61, sw2), GET RESPONSE with
\* Le = sw2 precedes every READ BINARY.
C4_GetResponseBeforeRead ==
    (Answered(1) /\ replies[1].sw1 = \H61)
        => \A i \in Reads :
              \E j \in 1..(i - 1) : sent[j] = <<0, \HC0, 0, 0, replies[1].sw2>>

\* C4 as amended: after SELECT FILE is answered (0x61, sw2), read_file sends
\* no GET RESPONSE: with max_length > 0 the next APDU is READ BINARY at
\* offset 0, and the bytes of the SELECT answer never enter the buffer.
C4_NoGetResponse ==
    (Answered(1) /\ replies[1].sw1 = \H61)
        => /\ \A i \in 1..Len(sent) : ~IsGetResponse(sent[i])
           /\ max_length > 0 =>
                 /\ Len(sent) >= 2
                 /\ sent[2] = <<0, \HB0, 0, 0, Min(256, max_length)>>
           /\ all_data = KeptBytes(Len(replies))

C4_Witness ==
    /\ Answered(1) /\ replies[1].sw1 = \H61 /\ replies[1].response # <<>>
    /\ Len(sent) = 2 /\ IsReadBinary(sent[2])
    /\ Answered(2) /\ pc = "returned" /\ Len(all_data) = 100

\* C5: a READ BINARY answered with SW1 other than 0x90 is the last APDU, and
\* what is returned is exactly the bytes of the reads before it.
C5_FailedReadKeepsBuffer ==
    \A i \in Reads :
        (Answered(i) /\ replies[i].sw1 # \H90)
            => /\ i = Len(sent)
               /\ pc = "returned"
               /\ ret = ReturnList(Received(2, i - 1))

C5_Witness ==
    /\ Len(sent) = 3 /\ Reads = {2, 3}
    /\ Answered(3) /\ replies[3].sw1 = \H6A /\ replies[3].response # <<>>
    /\ pc = "returned" /\ Len(ret.data) = 256

\* C6: a read sends at most one SELECT FILE, at most one GET RESPONSE and at
\* most ceil(max_length / 256) READ BINARY, none at an offset beyond
\* max_length, and it ends.
C6_Counts ==
    /\ Cardinality({i \in 1..Len(sent) : IsSelectFile(sent[i])}) <= 1
    /\ Cardinality({i \in 1..Len(sent) : IsGetResponse(sent[i])}) <= 1
    /\ Cardinality(Reads) <= CeilDiv(max_length, 256)
    /\ \A i \in Reads : sent[i][3] * 256 + sent[i][4] <= max_length

C6_BoundedAndEnds == []C6_Counts /\ <>(pc = "returned")

C6_Witness ==
    /\ max_length = 600 /\ Cardinality(Reads) = 3 /\ pc = "returned"
    /\ Len(replies[2].response) = 257

\* The terminal state of the session: Done after a short read or at the cap.
Terminal(e) == IF e \in {"short_read", "cap_reached"} THEN "Done" ELSE "Failed"

\* C7 as claimed: what read_file gives its caller tells a read that a failed
\* READ BINARY stopped from a read that completed with the same bytes.
C7_OutcomeTellsTerminalState ==
    (pc = "returned" /\ prev.ret.kind # "pending" /\ prev.ret = ret)
        => Terminal(prev.exit) = Terminal(exit)

\* C7 as amended: read_file gives its caller None when the SELECT FILE was not
\* sent, raised or was answered with SW1 outside {0x90, 0x61}, and otherwise
\* the list of the buffered bytes, whether the read completed or a READ
\* BINARY failed; no status word and no terminal state is part of it.
C7_OutcomeIsNoneOrBuffer ==
    pc = "returned" =>
        IF Answered(1) /\ replies[1].sw1 \in {\H90, \H61}
        THEN ret = ReturnList(KeptBytes(Len(replies)))
        ELSE ret = ReturnNone

C7_Witness ==
    /\ pc = "returned" /\ exit = "read_failed" /\ prev.exit = "short_read"
    /\ prev.ret = ret /\ Len(ret.data) = 256

\* C8 as claimed: a transmission error during SELECT FILE or READ BINARY
\* leaves read_file as an error, not as a return value.
C8_TransportErrorPropagates ==
    (pc = "returned" /\ \E i \in 1..Len(replies) : replies[i].raised)
        => ret.kind = "raise"

\* C8 as amended: send_apdu catches a transmission error and reports it as
\* (None, None); read_file then sends nothing more and returns None when the
\* error hit SELECT FILE, the bytes buffered so far when it hit a READ BINARY.
C8_TransportErrorIsCaught ==
    \A i \in 1..Len(replies) :
        replies[i].raised
            => /\ i = Len(sent)
               /\ pc = "returned"
               /\ ret = IF i = 1 THEN ReturnNone ELSE ReturnList(Received(2, i - 1))

C8_Witness ==
    /\ Len(replies) = 3 /\ replies[3].raised
    /\ pc = "returned" /\ ret.kind = "list" /\ Len(ret.data) = 256

\* C9: every READ BINARY sent is five bytes, 00 B0 P1 P2 Le, with the offset
\* untruncated in P1 P2 and the length in Le.
C9_ReadBinaryIsBytes ==
    \A i \in Reads :
        /\ Len(sent[i]) = 5
        /\ \A k \in 1..5 : sent[i][k] \in Byte
        /\ sent[i][3] * 256 + sent[i][4] = Len(Received(2, i - 1))

\* C10: a status word that is a key of the status table is described by an
\* entry of the table for that key, never by the message of its SW1 family;
\* (0x6A, 0x82) is "Error - File or application not found".
C10_ExactMatchWins ==
    (status_msg # "" /\ sw1 * 256 + sw2 \in StatusKeys)
        => /\ \E i \in 1..Len(status_code_entries) :
                 status_code_entries[i] = <<sw1 * 256 + sw2, status_msg>>
           /\ status_msg # pattern_match(sw1, sw2)
           /\ (sw1 = \H6A /\ sw2 = \H82)
                 => status_msg = "Error - File or application not found"

C10_Witness ==
    /\ sw1 = \H6A /\ sw2 = \H82
    /\ status_msg = "Error - File or application not found"

\* C11 as claimed: every status word with SW1 = 0x61 is described by the
\* message of the 0x61 family with SW2 as the decimal byte count; (0x61, 0x10)
\* gives the message for 16 bytes.
C11_Sw61IsByteCount ==
    (status_msg # "" /\ sw1 = \H61)
        => status_msg = "Success - " \o ToString(sw2)
                            \o " bytes of response data can be requested"

\* C11 as amended: a status word with SW1 = 0x61 is described by the message
\* of the 0x61 family, with SW2 as the decimal byte count, exactly when the
\* table has no entry for it; 0x6100, 0x6110 and 0x6181..0x6188 have one, so
\* (0x61, 0x10) gives "Warning - More data available" and (0x61, 0x20) the
\* message for 32 bytes.
C11_Sw61ByteCountUnlessListed ==
    (status_msg # "" /\ sw1 = \H61)
        => /\ (sw2 \notin {\H00, \H10} \cup (\H81..\H88))
                 <=> status_msg = "Success - " \o ToString(sw2)
                                      \o " bytes of response data can be requested"
           /\ sw2 = \H10 => status_msg = "Warning - More data available"
           /\ sw2 = \H20 =>
                 status_msg = "Success - 32 bytes of response data can be requested"

C11_Witness ==
    /\ sw1 = \H61 /\ sw2 = \H20
    /\ status_msg = "Success - 32 bytes of response data can be requested"

\* C12: decode_status describes every status word, and the description is
\* "Unknown status code" followed by SW1 and SW2 as four hex digits exactly
\* when the table has no entry for the status word and SW1 is none of
\* 0x61..0x6F, 0x90, 0x92, 0x93, 0x94.
C12_UnknownExactlyOutsideFamilies ==
    status_msg # "" =>
        /\ (status_msg = "Unknown status code " \o Hex2(sw1) \o Hex2(sw2)
               <=> /\ sw1 * 256 + sw2 \notin StatusKeys
                   /\ sw1 \notin (\H61..\H6F) \cup {\H90, \H92, \H93, \H94})
        /\ (sw1 = \H12 /\ sw2 = \H34) => status_msg = "Unknown status code 1234"

C12_Witness ==
    /\ sw1 = \H12 /\ sw2 = \H34 /\ status_msg = "Unknown status code 1234"

(***************************************************************************)
(* parse_tlv_data                                                          *)
(***************************************************************************)
\* The items of a buffer's history, padding left out.
Items(gs) == SelectSeq(gs, LAMBDA g : ~g.pad)

\* The mapping a sequence of items stands for: the tags in the order of their
\* first appearance, each with the value of its last occurrence.
LastWriteWins(items) ==
    LET firsts == {i \in 1..Len(items) :
                      \A j \in 1..(i - 1) : items[j].tag # items[i].tag}
        nth(k) == CHOOSE i \in firsts :
                      Cardinality({j \in firsts : j < i}) = k - 1
        last(tag) == CHOOSE i \in 1..Len(items) :
                      /\ items[i].tag = tag
                      /\ \A j \in (i + 1)..Len(items) : items[j].tag # tag
    IN [k \in 1..Cardinality(firsts) |->
           <<items[nth(k)].tag, items[last(items[nth(k)].tag)].value>>]

\* C13: for a buffer that is a concatenation of TLV items (short or extended
\* length form, no padding), parse_tlv_data returns the mapping from each tag
\* to the value of its last occurrence, tags in order of first appearance;
\* [4F 02 A0 01] gives {4F: [A0 01]} and [50 81 01 41] gives {50: [41]}.
C13_LastWriteWins ==
    (/\ tlv_out.done
     /\ tlv_mode = "built"
     /\ tlv_tail = <<>>
     /\ \A k \in 1..Len(tlv_segs) : ~tlv_segs[k].pad)
        => /\ ~tlv_out.error
           /\ tlv_out.parsed = LastWriteWins(tlv_segs)
           /\ tlv_data = <<\H4F, \H02, \HA0, \H01>>
                 => tlv_out.parsed = << <<\H4F, <<\HA0, \H01>>>> >>
           /\ tlv_data = <<\H50, \H81, \H01, \H41>>
                 => tlv_out.parsed = << <<\H50, <<\H41>>>> >>

\* Tag 4F occurs twice around tag 50: 4F stays first and has its later value.
C13_Witness ==
    /\ tlv_out.done
    /\ tlv_segs = <<ItemSeg(\H4F, 0, <<\HA0, \H01>>), ItemSeg(\H50, 1, <<\H41>>),
                    ItemSeg(\H4F, 0, <<\H05>>)>>
    /\ tlv_tail = <<>>
    /\ tlv_out.parsed = << <<\H4F, <<\H05>>>>, <<\H50, <<\H41>>>> >>

\* C14: padding bytes 00 and FF before, between and after complete items leave
\* the result as it is for the items alone; [00 4F 01 05] gives {4F: [05]};
\* 00 and FF inside a length or value field are not padding.
C14_PaddingIsSkipped ==
    (tlv_out.done /\ tlv_mode = "built" /\ tlv_tail = <<>>)
        => /\ tlv_out = parse_tlv_data(SegsBytes(Items(tlv_segs)))
           /\ tlv_data = <<\H00, \H4F, \H01, \H05>>
                 => tlv_out.parsed = << <<\H4F, <<\H05>>>> >>
           /\ tlv_data = <<\HFF, \H50, \H82, \H00, \H02, \H00, \HFF, \H00>>
                 => tlv_out.parsed = << <<\H50, <<\H00, \HFF>>>> >>

\* Padding before and between the items, 00 FF in a length and a value field.
C14_Witness ==
    /\ tlv_out.done
    /\ tlv_segs = <<PadSeg(\H00), ItemSeg(\H4F, 0, <<\H05>>), PadSeg(\HFF),
                    ItemSeg(\H50, 2, <<\H00, \HFF>>)>>
    /\ tlv_tail = <<>>
    /\ tlv_out.parsed = << <<\H4F, <<\H05>>>>, <<\H50, <<\H00, \HFF>>>> >>

\* C15: on every buffer parse_tlv_data returns without reading outside the
\* buffer (no IndexError); when an item is cut short (no length byte, extension
\* count 0 or beyond the end, length beyond the end) the result is the entries
\* completed before it.
C15_TruncatedStops ==
    tlv_out.done
        => /\ ~tlv_out.error
           /\ (tlv_mode = "built" /\ tlv_tail \in Truncated)
                 => tlv_out.parsed = LastWriteWins(Items(tlv_segs))

\* An extension count of 0 stops the parse although a complete item follows.
C15_Witness ==
    /\ tlv_out.done
    /\ tlv_segs = <<ItemSeg(\H4F, 0, <<\H05>>)>>
    /\ tlv_tail = <<\H5A, \H80, \H50, \H01, \H41>>
    /\ tlv_out.parsed = << <<\H4F, <<\H05>>>> >>

(***************************************************************************)
(* decodeATR                                                               *)
(***************************************************************************)
\* C16: with both TA1 indexes on numeric table values decodeATR reports the
\* clock frequency 5000000 / Fi and the baud rate (5000000 / Fi) / Di, and it
\* reports that it cannot calculate exactly when an index is on an RFU entry.
C16_CalculatesWhenNumeric ==
    (atr_out.done /\ Len(atr) >= 14)
        => LET fi == TableGet(ta1_Fi_table, (atr[3] \div 16) % 16)[1]
               di == TableGet(ta1_Di_table, atr[3] % 16)[1]
           IN /\ (~fi.none /\ ~di.none)
                    <=> /\ atr_out.calc = "calculated"
                        /\ atr_out.frequency = Quot(5000000, fi.n)
                        /\ atr_out.baud_rate = Quot(5000000, fi.n * di.n)
              /\ (fi.none \/ di.none) <=> atr_out.calc = "cannot"

\* The matching rule: one of the rendered ATR and the key starts with the other.
RuleMatches(a, key) == StartsWith(Render(a), key) \/ StartsWith(key, Render(a))

\* The catalog entries the rule matches.
Matching == {k \in 1..Len(atrlist) : RuleMatches(atr, atrlist[k][1])}

\* C17: the entry decodeATR reports is one the rule matches, and whenever the
\* rule matches some entry of the catalog decodeATR reports a match.
C17_MatchIsStartsWithEitherWay ==
    atr_out.done
        => /\ atr_out.match # 0 => atr_out.match \in Matching
           /\ Matching # {} => atr_out.match # 0

\* C18: when several entries match, the one reported is the earliest of them
\* in the catalog.
C18_EarliestMatchReported ==
    (atr_out.done /\ Cardinality(Matching) >= 2)
        => /\ atr_out.match \in Matching
           /\ \A k \in Matching : atr_out.match <= k

\* C20: an ATR of 0 to 13 bytes is decoded without error and reported too
\* short, with no tag type lookup and no TA1 derivation; the tag type is looked
\* up, at index 13, only for 14 bytes or more.
C20_ShortAtrIsTooShort ==
    atr_out.done
        => /\ Len(atr) < 14
                 => /\ ~atr_out.error
                    /\ atr_out.too_short
                    /\ ~atr_out.tag_lookup /\ atr_out.tag_type = ""
                    /\ ~atr_out.ta1_decoded /\ atr_out.calc = "none"
           /\ atr_out.tag_lookup
                 => /\ Len(atr) >= 14
                    /\ atr_out.tag_type = TagTypeGet(atr[14])
                    /\ ~atr_out.too_short

\* The longest ATR that is too short, matched in the catalog all the same.
C20_Witness ==
    /\ atr_out.done
    /\ Len(atr) = 13
    /\ atr_out.too_short
    /\ atr_out.match # 0

(***************************************************************************)
(* load_atrlist                                                            *)
(***************************************************************************)
\* The catalog a file stands for: an entry for every entry-start line, its key
\* the leading hex tokens joined by spaces, its description the rest of the
\* line with the continuation lines that follow appended.
RECURSIVE ClaimedFrom(_, _)
ClaimedFrom(lines, acc) ==
    IF lines = <<>> THEN acc
    ELSE
    LET raw == Head(lines)
        parts == Split(Strip(raw))
        last == acc[Len(acc)]
    IN
    IF IsComment(raw) \/ parts = <<>> THEN ClaimedFrom(Tail(lines), acc)
    ELSE IF StartsEntry(parts)
    THEN ClaimedFrom(Tail(lines),
             Append(acc, <<Join(SubSeq(parts, 1, HexRun(parts))), EntryDescription(parts)>>))
    ELSE IF acc = <<>> THEN ClaimedFrom(Tail(lines), acc)
    ELSE ClaimedFrom(Tail(lines),
             [acc EXCEPT ![Len(acc)] =
                 <<last[1], IF last[2] = <<>> THEN Join(parts)
                            ELSE last[2] \o <<" ">> \o Join(parts)>>])

ClaimedCatalog(lines) == ClaimedFrom(lines, <<>>)

\* C19: the catalog load_atrlist returns has one entry for every entry-start
\* line of the file, the last one included, in file order, each key the leading
\* hex tokens of the line once each and each description the rest of the line
\* with the following continuation lines appended (files with no key twice).
C19_CatalogHoldsEveryEntry ==
    LET claimed == ClaimedCatalog(cat_lines) IN
    (/\ cat_pc = "returned"
     /\ \A j, k \in 1..Len(claimed) : j # k => claimed[j][1] # claimed[k][1])
        => cat_atrlist = claimed

\* T0 (index 1) marks TA1 present with bit 0x10 of its high nibble.
TA1Present(a) == Len(a) >= 2 /\ (a[2] \div 16) % 2 = 1

\* C21: decodeATR splits a byte into Fi and Di indexes only when T0 marks TA1
\* present; with TA1 marked absent the byte after T0 is not taken for TA1.
C21_TA1OnlyWhenT0MarksIt ==
    (atr_out.done /\ atr_out.ta1_decoded) => TA1Present(atr)

(***************************************************************************)
(* read_file: offset and buffer                                            *)
(***************************************************************************)
\* C22 as claimed: the offset is the length of the buffer after the select,
\* after every READ BINARY answer that was processed, full or short, and when
\* the read is over.
C22_OffsetIsBufferLength == offset = Len(all_data)

\* C22 as amended: the offset is the length of the buffer except after a short
\* read, which is added to the buffer and ends the read with the offset left
\* where the READ BINARY was issued.
C22_OffsetLagsAfterShortRead ==
    IF exit = "short_read"
    THEN /\ pc = "returned"
         /\ Len(replies[Len(replies)].response) < read_length
         /\ Len(all_data) = offset + Len(replies[Len(replies)].response)
    ELSE offset = Len(all_data)

\* A full chunk, then a short answer of 100 bytes.
C22_Witness ==
    /\ pc = "returned" /\ exit = "short_read"
    /\ offset = 256 /\ Len(all_data) = 356

(***************************************************************************)
(* select_application                                                      *)
(***************************************************************************)
\* The i-th APDU of select_application was answered.
AppAnswered(i) == i \in 1..Len(app_replies) /\ ~app_replies[i].raised

\* SELECT answered with SW1 0x90, or with 0x61 and GET RESPONSE with 0x90.
AppSelected ==
    /\ AppAnswered(1)
    /\ \/ app_replies[1].sw1 = \H90
       \/ /\ app_replies[1].sw1 = \H61
          /\ AppAnswered(2)
          /\ app_replies[2].sw1 = \H90

\* C23: select_application sets selected_app to the name and reports success
\* exactly when SELECT is answered with SW1 0x90, or with (0x61, sw2) and the
\* one GET RESPONSE with Le = sw2 is answered with SW1 0x90; otherwise it
\* reports failure and leaves selected_app as it was; it sends at most the two.
C23_SelectedOnlyOnSuccess ==
    /\ Len(app_sent) <= 2
    /\ Len(app_sent) >= 1 => app_sent[1] = select_cmd(app_aid)
    /\ Len(app_sent) = 2
          => /\ AppAnswered(1) /\ app_replies[1].sw1 = \H61
             /\ app_sent[2] = <<\H00, \HC0, \H00, \H00, app_replies[1].sw2>>
    /\ app_pc # "returned" => selected_app = app_old
    /\ app_pc = "returned"
          => IF AppSelected
             THEN selected_app = app_name /\ app_ret.ok
             ELSE selected_app = app_old /\ ~app_ret.ok

\* SELECT answered 61 10, GET RESPONSE answered 90 00: the name is set.
C23_Witness ==
    /\ app_pc = "returned"
    /\ Len(app_replies) = 2
    /\ app_replies[1].sw1 = \H61 /\ app_replies[2].sw1 = \H90
    /\ app_old = NoApp /\ selected_app = "mDL"
    /\ app_ret.ok

(***************************************************************************)
(* testReader, getPICC, getFirmwareVersion                                 *)
(***************************************************************************)
\* C24: a call that connected to the card has disconnected when it is over,
\* on every path.
C24_DisconnectsBeforeReturn ==
    (tool_exit # "none" /\ tool_connected) => tool_disconnected

====
